---- MODULE Spec2Model ----
(***************************************************************************)
(* nucypher/config/utils.py: bootstrap of the configuration directory tree *)
(* and of the default ini file, and validation of passphrases and of ini   *)
(* configuration documents.                                                *)
(*                                                                         *)
(* The filesystem is a pair of finite maps: dirs (path -> mode given to    *)
(* os.mkdir) and files (path -> sequence of lines).  A path is present     *)
(* exactly when it is in the map's domain.  Every operation of the module  *)
(* is one action; the variable last records what the latest call was given *)
(* and what it signalled or returned.                                      *)
(***************************************************************************)
EXTENDS Integers, Sequences, FiniteSets, TLC

VARIABLES dirs, files, template, invoked, successes, last

vars == <<dirs, files, template, invoked, successes, last>>

---------------------------------------------------------------------------
(* Paths.  The DEFAULT_* names are the constants imported from             *)
(* nucypher.config.constants; they are distinct locations.                 *)

DEFAULT_CONFIG_ROOT == "DEFAULT_CONFIG_ROOT"
DEFAULT_KEYRING_ROOT == "DEFAULT_KEYRING_ROOT"
DEFAULT_KNOWN_NODE_DIR == "DEFAULT_KNOWN_NODE_DIR"
DEFAULT_KNOWN_CERTIFICATES_DIR == "DEFAULT_KNOWN_CERTIFICATES_DIR"
DEFAULT_KNOWN_METADATA_DIR == "DEFAULT_KNOWN_METADATA_DIR"
DEFAULT_SEED_NODE_DIR == "DEFAULT_SEED_NODE_DIR"
DEFAULT_SEED_CERTIFICATES_DIR == "DEFAULT_SEED_CERTIFICATES_DIR"
DEFAULT_SEED_METADATA_DIR == "DEFAULT_SEED_METADATA_DIR"
DEFAULT_INI_FILEPATH == "DEFAULT_INI_FILEPATH"

\* A root a caller may pass that is none of the fixed locations above.
ALT_ROOT == "alt_root"
\* A destination a caller may pass to write_default_ini_config / validate.
ALT_INI_FILEPATH == "alt_ini_filepath"

\* The two falsy values of the config_root argument: omitted, and ''.
None == "None"
EmptyPath == ""

\* Values of the config_root argument.
RootArgs == {None, EmptyPath, DEFAULT_CONFIG_ROOT, ALT_ROOT}

\* Values of the filepath argument.
FilePaths == {DEFAULT_INI_FILEPATH, ALT_INI_FILEPATH}

\* Modes passed to os.mkdir: 0o755 and 0o700.
MODE_0755 == 493
MODE_0700 == 448

---------------------------------------------------------------------------
(* Lines of an ini text: the number of leading ';' characters and what     *)
(* follows them (a section header, an option, or free text).               *)

SectionLine(n, s) == [semis |-> n, kind |-> "section", name |-> s, value |-> ""]
OptionLine(n, k, v) == [semis |-> n, kind |-> "option", name |-> k, value |-> v]
TextLine(n) == [semis |-> n, kind |-> "text", name |-> "", value |-> ""]

\* Number of leading template lines islice skips.
HEADER_LINES == 12

HeaderOf(n) == [i \in 1..n |-> TextLine(1)]

\* Contents the bundled template file may have.
Templates ==
    { HeaderOf(HEADER_LINES) \o << SectionLine(1, "nucypher"),
                                   OptionLine(1, "mode", "federated"),
                                   SectionLine(1, "blockchain") >>,
      HeaderOf(HEADER_LINES) \o << SectionLine(0, "nucypher"),
                                   OptionLine(2, "mode", "unsupported_value") >>,
      HeaderOf(HEADER_LINES - 1) \o << SectionLine(1, "nucypher"),
                                       OptionLine(1, "mode", "federated") >> }

\* Contents a caller-chosen destination may hold before the program runs.
ExistingContents ==
    { << >>,
      << SectionLine(0, "nucypher"), OptionLine(0, "mode", "testing") >> }

\* islice(template_file, 12, None)
Islice(lines, start) == SubSeq(lines, start + 1, Len(lines))

\* line.lstrip(';')
Lstrip(line) == [line EXCEPT !.semis = 0]

---------------------------------------------------------------------------
(* Environment faults.  fault = 0: no OS call fails for a reason outside   *)
(* the modelled filesystem; fault = k in 1..8: the k-th os.mkdir fails     *)
(* (permissions, missing parent, disk full); the two values above that:    *)
(* opening the template, opening the destination.                          *)

\* Faulty variant: os.makedirs(path, exist_ok=True) semantics, an existing path is no error.
MkdirFails_exist_ok(fs, path, faulty) == faulty

\* os.mkdir(path, mode) raises: the path exists, or the environment fails it.
MkdirFails(fs, path, faulty) == path \in DOMAIN fs \/ faulty

\* os.mkdir(path, mode) succeeding.
Mkdir(fs, path, mode) == (path :> mode) @@ fs

\* Faulty variant: the existence check looks at the default root, not at root.
IsDir_default(fs, root) == DEFAULT_CONFIG_ROOT \in DOMAIN fs

\* os.path.isdir(root)
IsDir(fs, root) == root \in DOMAIN fs

\* root = config_root if config_root else DEFAULT_CONFIG_ROOT
RootOf(config_root) ==
    IF config_root \in {None, EmptyPath} THEN DEFAULT_CONFIG_ROOT ELSE config_root

\* Faulty variant: the keyring is created with the mode of the other directories.
MkdirSequence_open_keyring(root) ==
    << [path |-> root,                           mode |-> MODE_0755],
       [path |-> DEFAULT_KEYRING_ROOT,           mode |-> MODE_0755],
       [path |-> DEFAULT_KNOWN_NODE_DIR,         mode |-> MODE_0755],
       [path |-> DEFAULT_KNOWN_CERTIFICATES_DIR, mode |-> MODE_0755],
       [path |-> DEFAULT_KNOWN_METADATA_DIR,     mode |-> MODE_0755],
       [path |-> DEFAULT_SEED_NODE_DIR,          mode |-> MODE_0755],
       [path |-> DEFAULT_SEED_CERTIFICATES_DIR,  mode |-> MODE_0755],
       [path |-> DEFAULT_SEED_METADATA_DIR,      mode |-> MODE_0755] >>

\* Faulty variant: the keyring is created before the root.
MkdirSequence_keyring_first(root) ==
    << [path |-> DEFAULT_KEYRING_ROOT,           mode |-> MODE_0700],
       [path |-> root,                           mode |-> MODE_0755],
       [path |-> DEFAULT_KNOWN_NODE_DIR,         mode |-> MODE_0755],
       [path |-> DEFAULT_KNOWN_CERTIFICATES_DIR, mode |-> MODE_0755],
       [path |-> DEFAULT_KNOWN_METADATA_DIR,     mode |-> MODE_0755],
       [path |-> DEFAULT_SEED_NODE_DIR,          mode |-> MODE_0755],
       [path |-> DEFAULT_SEED_CERTIFICATES_DIR,  mode |-> MODE_0755],
       [path |-> DEFAULT_SEED_METADATA_DIR,      mode |-> MODE_0755] >>

\* The os.mkdir calls of initialize_configuration, in program order.
MkdirSequence(root) ==
    << [path |-> root,                           mode |-> MODE_0755],
       [path |-> DEFAULT_KEYRING_ROOT,           mode |-> MODE_0700],
       [path |-> DEFAULT_KNOWN_NODE_DIR,         mode |-> MODE_0755],
       [path |-> DEFAULT_KNOWN_CERTIFICATES_DIR, mode |-> MODE_0755],
       [path |-> DEFAULT_KNOWN_METADATA_DIR,     mode |-> MODE_0755],
       [path |-> DEFAULT_SEED_NODE_DIR,          mode |-> MODE_0755],
       [path |-> DEFAULT_SEED_CERTIFICATES_DIR,  mode |-> MODE_0755],
       [path |-> DEFAULT_SEED_METADATA_DIR,      mode |-> MODE_0755] >>

NumMkdirs == Len(MkdirSequence(DEFAULT_CONFIG_ROOT))
TemplateOpenFault == NumMkdirs + 1
FilepathOpenFault == NumMkdirs + 2
Faults == 0..FilepathOpenFault

\* Runs the mkdir calls from the k-th on; failed is the index of the call that
\* raised, 0 when all succeeded.
RECURSIVE RunMkdirs(_, _, _, _)
RunMkdirs(fs, seq, k, fault) ==
    IF k > Len(seq) THEN [dirs |-> fs, failed |-> 0]
    ELSE IF MkdirFails(fs, seq[k].path, fault = k) THEN [dirs |-> fs, failed |-> k]
    ELSE RunMkdirs(Mkdir(fs, seq[k].path, seq[k].mode), seq, k + 1, fault)

\* open(filepath, 'w+'): creates the file or truncates it.
OpenTruncate(fl, filepath) == (filepath :> << >>) @@ fl

\* write_default_ini_config(filepath), as a function of the files.
WriteDefaultIni(fl, tmpl, filepath, fault) ==
    IF fault = TemplateOpenFault \/ fault = FilepathOpenFault
    THEN [outcome |-> "OSError", files |-> fl]
    ELSE LET opened == OpenTruncate(fl, filepath)
             copied == [i \in 1..Len(Islice(tmpl, HEADER_LINES)) |->
                            Lstrip(Islice(tmpl, HEADER_LINES)[i])]
         IN  IF opened[filepath] # << >>
             THEN [outcome |-> "NucypherConfigurationError", files |-> opened]
             ELSE [outcome |-> "returned", files |-> (filepath :> copied) @@ opened]

---------------------------------------------------------------------------
(* Validator.  A passphrase is a sequence of characters.  An ini           *)
(* configuration document is a map from its section names to maps from     *)
(* option names to values, as a ConfigParser presents it.                  *)

MIN_PASSPHRASE_LEN == 16
MaxPassLen == 18

Passphrases == UNION {[1..n -> {"x"}] : n \in 0..MaxPassLen}

\* Faulty variant: the length rule with > in place of >=.
PassphraseRules_strict(passphrase) ==
    << [rule |-> Len(passphrase) > MIN_PASSPHRASE_LEN,
        failure_message |-> "Passphrase is too short, must be >= 16 chars."] >>

\* rules = ((len(passphrase) >= 16, 'Passphrase is too short, ...'),)
PassphraseRules(passphrase) ==
    << [rule |-> Len(passphrase) >= MIN_PASSPHRASE_LEN,
        failure_message |-> "Passphrase is too short, must be >= 16 chars."] >>

\* for rule, failure_message in rules: raise at the first rule that is false.
RECURSIVE FirstFailure(_, _)
FirstFailure(rules, i) ==
    IF i > Len(rules) THEN 0
    ELSE IF ~rules[i].rule THEN i
    ELSE FirstFailure(rules, i + 1)

\* validate_passphrase(passphrase), as a function.
ValidatePassphrase(passphrase) ==
    LET rules == PassphraseRules(passphrase)
        bad == FirstFailure(rules, 1)
    IN  IF bad # 0
        THEN [outcome |-> "NucypherConfigurationError",
              message |-> rules[bad].failure_message]
        ELSE [outcome |-> "returned", ret |-> TRUE]

SectionNames == {"nucypher", "blockchain", "other"}
OptionNames == {"mode", "host"}
modes == {"federated", "testing", "decentralized", "centralized"}
required_sections == <<"nucypher", "blockchain">>

ValuesOf(k) == IF k = "mode" THEN modes \cup {"unsupported_value"} ELSE {"localhost"}
OptionValues == UNION {ValuesOf(k) : k \in OptionNames}

OptionMaps ==
    UNION { {f \in [K -> OptionValues] : \A k \in K : f[k] \in ValuesOf(k)} :
            K \in SUBSET OptionNames }

\* The pre-parsed documents a caller may pass as config.
Documents == UNION {[S -> OptionMaps] : S \in SUBSET SectionNames}

\* ConfigParser.read(filepath) on the lines of a file: lines starting with ';'
\* are comments; a repeated section or option, an option before any section and
\* a line that is neither raise a configparser error.
RECURSIVE ParseLines(_, _, _, _)
ParseLines(lines, i, cur, doc) ==
    IF i > Len(lines) THEN [ok |-> TRUE, doc |-> doc]
    ELSE LET line == lines[i] IN
         IF line.semis > 0 THEN ParseLines(lines, i + 1, cur, doc)
         ELSE IF line.kind = "section"
         THEN IF line.name \in DOMAIN doc THEN [ok |-> FALSE, doc |-> doc]
              ELSE ParseLines(lines, i + 1, line.name, (line.name :> << >>) @@ doc)
         ELSE IF line.kind = "option"
         THEN IF cur = "" \/ line.name \in DOMAIN doc[cur] THEN [ok |-> FALSE, doc |-> doc]
              ELSE ParseLines(lines, i + 1, cur,
                              (cur :> ((line.name :> line.value) @@ doc[cur])) @@ doc)
         ELSE [ok |-> FALSE, doc |-> doc]

\* config = ConfigParser(); config.read(filepath): a file that does not exist
\* is skipped and leaves the document without sections.
ReadConfig(fl, filepath) ==
    IF filepath \in DOMAIN fl THEN ParseLines(fl[filepath], 1, "", << >>)
    ELSE [ok |-> TRUE, doc |-> << >>]

\* Faulty variant: an absent section is put at the front of the list.
RECURSIVE CheckSections_prepend(_, _, _, _)
CheckSections_prepend(config, i, missing_sections, raise_on_failure) ==
    IF i > Len(required_sections) THEN [raised |-> FALSE, missing |-> missing_sections]
    ELSE IF required_sections[i] \notin DOMAIN config
    THEN IF raise_on_failure
         THEN [raised |-> TRUE, missing |-> <<required_sections[i]>> \o missing_sections]
         ELSE CheckSections_prepend(config, i + 1,
                                    <<required_sections[i]>> \o missing_sections,
                                    raise_on_failure)
    ELSE CheckSections_prepend(config, i + 1, missing_sections, raise_on_failure)

\* Faulty variant: the loop never raises, whatever raise_on_failure is.
RECURSIVE CheckSections_noraise(_, _, _, _)
CheckSections_noraise(config, i, missing_sections, raise_on_failure) ==
    IF i > Len(required_sections) THEN [raised |-> FALSE, missing |-> missing_sections]
    ELSE IF required_sections[i] \notin DOMAIN config
    THEN CheckSections_noraise(config, i + 1,
                               Append(missing_sections, required_sections[i]),
                               raise_on_failure)
    ELSE CheckSections_noraise(config, i + 1, missing_sections, raise_on_failure)

\* The loop over required_sections from the i-th on: appends each absent
\* section, and stops at the first one when raise_on_failure is true.
RECURSIVE CheckSections(_, _, _, _)
CheckSections(config, i, missing_sections, raise_on_failure) ==
    IF i > Len(required_sections) THEN [raised |-> FALSE, missing |-> missing_sections]
    ELSE IF required_sections[i] \notin DOMAIN config
    THEN IF raise_on_failure
         THEN [raised |-> TRUE, missing |-> Append(missing_sections, required_sections[i])]
         ELSE CheckSections(config, i + 1,
                            Append(missing_sections, required_sections[i]),
                            raise_on_failure)
    ELSE CheckSections(config, i + 1, missing_sections, raise_on_failure)

Raised(msg) == [outcome |-> "NucypherConfigurationError", message |-> msg]

\* The else branch of the mode lookup and what follows it: the mode value,
\* the required sections, the result.
ValidateSections(config, raise_on_failure) ==
    LET operating_mode == config["nucypher"]["mode"]
        after_mode == IF operating_mode \notin modes THEN <<"mode">> ELSE << >>
        scan == CheckSections(config, 1, after_mode, raise_on_failure)
    IN  IF operating_mode \notin modes /\ raise_on_failure
        THEN Raised("Invalid nucypher operating mode")
        ELSE IF scan.raised THEN Raised("Invalid config file: missing section")
        ELSE IF Len(scan.missing) > 0
        THEN [outcome |-> "returned", ok |-> FALSE, missing |-> scan.missing]
        ELSE [outcome |-> "returned", ok |-> TRUE, missing |-> << >>]

\* Faulty variant: a missing mode key obeys raise_on_failure like the later checks.
ValidateConfig_lenient(config, raise_on_failure) ==
    IF DOMAIN config = {} THEN Raised("Empty configuration file")
    ELSE IF "nucypher" \notin DOMAIN config \/ "mode" \notin DOMAIN config["nucypher"]
    THEN IF raise_on_failure THEN Raised("No operating mode configured")
         ELSE [outcome |-> "returned", ok |-> FALSE, missing |-> <<"mode">>]
    ELSE ValidateSections(config, raise_on_failure)

\* validate_nucypher_ini_config on the document config.
ValidateConfig(config, raise_on_failure) ==
    IF DOMAIN config = {} THEN Raised("Empty configuration file")
    ELSE IF "nucypher" \notin DOMAIN config \/ "mode" \notin DOMAIN config["nucypher"]
    THEN Raised("No operating mode configured")
    ELSE ValidateSections(config, raise_on_failure)

---------------------------------------------------------------------------
SuccessCap == 2

Init ==
    /\ dirs = << >>
    /\ files \in {<< >>} \cup {(ALT_INI_FILEPATH :> c) : c \in ExistingContents}
    /\ template \in Templates
    /\ invoked = {}
    /\ successes = 0
    /\ last = [op |-> "none"]

\* initialize_configuration(config_root)
initialize_configuration(config_root, fault) ==
    LET root == RootOf(config_root)
        seen == [op |-> "initialize_configuration", config_root |-> config_root,
                 root |-> root, repeated |-> config_root \in invoked,
                 rootWasDir |-> IsDir(dirs, root), afterSuccess |-> successes > 0]
    IN  /\ invoked' = invoked \cup {config_root}
        /\ UNCHANGED template
        /\ IF IsDir(dirs, root)
           THEN /\ last' = seen @@ [outcome |-> "NucypherConfigurationError",
                                    failed |-> 0, ret |-> None]
                /\ UNCHANGED <<dirs, files, successes>>
           ELSE LET made == RunMkdirs(dirs, MkdirSequence(root), 1, fault)
                    wrote == WriteDefaultIni(files, template, DEFAULT_INI_FILEPATH, fault)
                IN  /\ dirs' = made.dirs
                    /\ IF made.failed # 0
                       THEN /\ last' = seen @@ [outcome |-> "OSError",
                                                failed |-> made.failed, ret |-> None]
                            /\ UNCHANGED <<files, successes>>
                       ELSE /\ files' = wrote.files
                            /\ IF wrote.outcome = "returned"
                               THEN /\ last' = seen @@ [outcome |-> "returned",
                                                        failed |-> 0,
                                                        ret |-> config_root]
                                    /\ successes' = IF successes < SuccessCap
                                                    THEN successes + 1 ELSE successes
                               ELSE /\ last' = seen @@ [outcome |-> wrote.outcome,
                                                        failed |-> NumMkdirs + 1,
                                                        ret |-> None]
                                    /\ UNCHANGED successes

\* write_default_ini_config(filepath)
write_default_ini_config(filepath, fault) ==
    LET wrote == WriteDefaultIni(files, template, filepath, fault)
    IN  /\ files' = wrote.files
        /\ last' = [op |-> "write_default_ini_config", filepath |-> filepath,
                    wasBlank |-> (filepath \notin DOMAIN files \/ files[filepath] = << >>),
                    outcome |-> wrote.outcome]
        /\ UNCHANGED <<dirs, template, invoked, successes>>

\* validate_passphrase(passphrase)
validate_passphrase(passphrase) ==
    /\ last' = [op |-> "validate_passphrase", passphrase |-> passphrase]
               @@ ValidatePassphrase(passphrase)
    /\ UNCHANGED <<dirs, files, template, invoked, successes>>

\* The config argument: a document, or None (the document is read from filepath).
GivenConfig(doc) == [given |-> TRUE, doc |-> doc]
NoConfig == [given |-> FALSE, doc |-> << >>]

\* validate_nucypher_ini_config(config, filepath, raise_on_failure)
validate_nucypher_ini_config(config, filepath, raise_on_failure) ==
    LET given == config.given
        read == IF given THEN [ok |-> TRUE, doc |-> config.doc]
                ELSE ReadConfig(files, filepath)
        seen == [op |-> "validate_nucypher_ini_config", given |-> given,
                 raise_on_failure |-> raise_on_failure, parsed |-> read.ok,
                 config |-> read.doc]
    IN  /\ last' = IF read.ok THEN seen @@ ValidateConfig(read.doc, raise_on_failure)
                   ELSE seen @@ [outcome |-> "configparser.Error"]
        /\ UNCHANGED <<dirs, files, template, invoked, successes>>

\* The call about to be made, with its arguments.
Call(fn, args) == [op |-> "call", fn |-> fn, args |-> args]

ConfigArgs == {NoConfig} \cup {GivenConfig(doc) : doc \in Documents}

ValidatorCalls ==
    {Call("validate_passphrase", <<passphrase>>) : passphrase \in Passphrases}
    \cup {Call("validate_nucypher_ini_config", <<config, filepath, raise_on_failure>>) :
              config \in ConfigArgs, filepath \in FilePaths,
              raise_on_failure \in BOOLEAN}

\* The validators are functions of their arguments and of the files: each
\* behaviour starts with the files as the bootstrap may have left them and with
\* one call to make.
InitValidator ==
    /\ dirs = << >>
    /\ template \in Templates
    /\ \E fl \in {<< >>} \cup {(ALT_INI_FILEPATH :> c) : c \in ExistingContents} :
           files \in {fl, WriteDefaultIni(fl, template, DEFAULT_INI_FILEPATH, 0).files}
    /\ invoked = {}
    /\ successes = 0
    /\ last \in {c \in ValidatorCalls :
                    c.fn = "validate_nucypher_ini_config" /\ c.args[1].given
                        => c.args[2] = DEFAULT_INI_FILEPATH}

NextValidator ==
    \/ /\ last.op = "call"
       /\ last.fn = "validate_passphrase"
       /\ validate_passphrase(last.args[1])
    \/ /\ last.op = "call"
       /\ last.fn = "validate_nucypher_ini_config"
       /\ validate_nucypher_ini_config(last.args[1], last.args[2], last.args[3])

SpecValidator == InitValidator /\ [][NextValidator]_vars

Next ==
    \/ \E config_root \in RootArgs, fault \in Faults :
           initialize_configuration(config_root, fault)
    \/ \E filepath \in FilePaths, fault \in {0, TemplateOpenFault, FilepathOpenFault} :
           write_default_ini_config(filepath, fault)

Spec == Init /\ [][Next]_vars

---------------------------------------------------------------------------
(* Properties.                                                             *)

IsInit(l) == l.op = "initialize_configuration"
IsValidate(l) == l.op = "validate_nucypher_ini_config" /\ l.parsed

\* The root directory a call given config_root uses.
UsedRoot(config_root) ==
    IF config_root = None \/ config_root = "" THEN DEFAULT_CONFIG_ROOT ELSE config_root

\* The fixed sequence of directories of a call that uses root.
FixedOrder(root) ==
    << root, DEFAULT_KEYRING_ROOT, DEFAULT_KNOWN_NODE_DIR,
       DEFAULT_KNOWN_CERTIFICATES_DIR, DEFAULT_KNOWN_METADATA_DIR,
       DEFAULT_SEED_NODE_DIR, DEFAULT_SEED_CERTIFICATES_DIR,
       DEFAULT_SEED_METADATA_DIR >>

C2_ReturnsRootUsed ==
    (IsInit(last) /\ last.outcome = "returned")
        => /\ last.ret = UsedRoot(last.config_root)
           /\ last.ret \in DOMAIN dirs

\* The list C3 describes for a document with a mode key in a nucypher section.
ExpectedMissing(config) ==
    (IF config["nucypher"]["mode"]
           \in {"federated", "testing", "decentralized", "centralized"}
     THEN << >> ELSE <<"mode">>)
    \o (IF "nucypher" \in DOMAIN config THEN << >> ELSE <<"nucypher">>)
    \o (IF "blockchain" \in DOMAIN config THEN << >> ELSE <<"blockchain">>)

HasModeKey(config) ==
    /\ "nucypher" \in DOMAIN config
    /\ "mode" \in DOMAIN config["nucypher"]

\* C3: with raise_on_failure false, a document with a mode key in a nucypher
\* section is never signalled on; the call returns (ok, missing) with missing the
\* list "mode" if the mode value is invalid, then the absent required sections in
\* order, and ok true exactly when missing is empty.
C3_CollectModeResult ==
    (IsValidate(last) /\ ~last.raise_on_failure /\ HasModeKey(last.config))
        => /\ last.outcome = "returned"
           /\ last.missing = ExpectedMissing(last.config)
           /\ last.ok <=> (last.missing = << >>)

C3_Witness ==
    /\ IsValidate(last)
    /\ ~last.raise_on_failure
    /\ HasModeKey(last.config)
    /\ last.config["nucypher"]["mode"] = "unsupported_value"
    /\ "blockchain" \notin DOMAIN last.config
    /\ last.outcome = "returned"
    /\ last.missing = <<"mode", "blockchain">>

\* C4: a document with no section, without a nucypher section, or without a
\* mode key in it is signalled on with NucypherConfigurationError, whatever
\* raise_on_failure is.
C4_UnconditionalFailures ==
    (IsValidate(last) /\ ~HasModeKey(last.config))
        => /\ last.outcome = "NucypherConfigurationError"
           /\ \A flag \in BOOLEAN :
                  ValidateConfig(last.config, flag).outcome
                      = "NucypherConfigurationError"

C4_Witness ==
    /\ IsValidate(last)
    /\ ~last.raise_on_failure
    /\ "nucypher" \in DOMAIN last.config
    /\ "mode" \notin DOMAIN last.config["nucypher"]
    /\ last.outcome = "NucypherConfigurationError"

\* C5: on every document the call with raise_on_failure true returns exactly
\* when the call with raise_on_failure false returns (true, <<>>); when the
\* latter returns a non-empty missing list the former signals, with the message
\* of the first entry of that list; what the former returns is (true, <<>>).
C5_FailFastAgreesWithCollect ==
    IsValidate(last) =>
        LET other == ValidateConfig(last.config, ~last.raise_on_failure)
            strict == IF last.raise_on_failure THEN last ELSE other
            collect == IF last.raise_on_failure THEN other ELSE last
        IN  /\ (strict.outcome = "returned")
                   <=> (collect.outcome = "returned" /\ collect.ok
                        /\ collect.missing = << >>)
            /\ (collect.outcome = "returned" /\ collect.missing # << >>)
                   => /\ strict.outcome = "NucypherConfigurationError"
                      /\ strict.message =
                             IF Head(collect.missing) = "mode"
                             THEN "Invalid nucypher operating mode"
                             ELSE "Invalid config file: missing section"
            /\ strict.outcome = "returned" => (strict.ok /\ strict.missing = << >>)

C5_Witness ==
    /\ IsValidate(last)
    /\ last.raise_on_failure
    /\ HasModeKey(last.config)
    /\ last.config["nucypher"]["mode"] = "federated"
    /\ "blockchain" \notin DOMAIN last.config
    /\ last.outcome = "NucypherConfigurationError"

\* C6: a passphrase shorter than 16 characters is signalled on with
\* NucypherConfigurationError; one of 16 characters or more makes the call
\* return true; the call never returns false.
C6_PassphraseLength ==
    last.op = "validate_passphrase"
        => /\ Len(last.passphrase) < 16 => last.outcome = "NucypherConfigurationError"
           /\ Len(last.passphrase) >= 16 => (last.outcome = "returned" /\ last.ret = TRUE)
           /\ last.outcome \in {"returned", "NucypherConfigurationError"}

C6_Witness ==
    /\ last.op = "validate_passphrase"
    /\ Len(last.passphrase) = 16
    /\ last.outcome = "returned"

\* C7: write_default_ini_config on a destination that holds content signals
\* NucypherConfigurationError (unless a file cannot be opened).
C7_NonBlankRejected ==
    (last.op = "write_default_ini_config" /\ ~last.wasBlank /\ last.outcome # "OSError")
        => last.outcome = "NucypherConfigurationError"

C9_NoRollbackFixedOrder ==
    [][ IsInit(last') =>
          LET order == FixedOrder(UsedRoot(last'.config_root))
              k == last'.failed
          IN  /\ last'.outcome = "OSError"
                    => /\ k \in 1..9
                       /\ DOMAIN dirs' \ DOMAIN dirs = {order[i] : i \in 1..(k - 1)}
                       /\ \A p \in DOMAIN dirs : dirs'[p] = dirs[p]
                       /\ files' = files
              /\ last'.outcome = "returned"
                    => /\ DOMAIN dirs' \ DOMAIN dirs = {order[i] : i \in 1..8}
                       /\ \A p \in DOMAIN dirs : dirs'[p] = dirs[p]
                       /\ DEFAULT_INI_FILEPATH \in DOMAIN files' ]_vars

C9_Witness ==
    /\ IsInit(last)
    /\ last.outcome = "OSError"
    /\ last.failed = 5
    /\ DEFAULT_KNOWN_CERTIFICATES_DIR \in DOMAIN dirs
    /\ DEFAULT_KNOWN_METADATA_DIR \notin DOMAIN dirs
    /\ DEFAULT_INI_FILEPATH \notin DOMAIN files

====
